---- MODULE Spec2Model ----
(***************************************************************************)
(* Model of the image optimizer's retrieval-transform-cache pipeline:      *)
(* startup (initializeCache, initializeS3Client), and handleImageRequest   *)
(* with its helpers getCachedImage, getImageBuffer, getCachedOriginalImage,*)
(* cacheOriginalImage, processImage and cacheImage.                        *)
(*                                                                         *)
(* Strings are sequences of tokens (each token stands for that literal     *)
(* piece of text), so that template strings are concatenations,            *)
(* startsWith looks at the first token and includes looks for a token.     *)
(* A Buffer is [id, len]: id names the content, len is Buffer.length.      *)
(* Every await on I/O is an interleaving point: one action per awaited     *)
(* call, the synchronous code after it included.                           *)
(***************************************************************************)
EXTENDS Integers, Sequences, FiniteSets, TLC

(* ---------------------------------------------------------------------- *)
(* Bounds                                                                  *)
(* ---------------------------------------------------------------------- *)
MaxReq == 2

Req == 1..MaxReq

\* a parameter that searchParams.get found absent (no text equals it)
Null == <<"<null>">>

\* the value of redis and s3Client before, or instead of, a client object
NoClient == "null"

(* ---------------------------------------------------------------------- *)
(* The world outside the process: request inputs, remote servers, bucket   *)
(* ---------------------------------------------------------------------- *)
SrcBig == <<"https://", "x/big.jpg">>
SrcGone == <<"http://", "x/gone.jpg">>
SrcLost == <<"https://", "x/", "not found", ".jpg">>
SrcPhoto == <<"images/photo.jpg">>
SrcBroken == <<"broken.bin">>
SrcNoKey == <<"nonexistent-key">>
SrcEmpty == <<"empty.bin">>
SrcA == <<"a">>
SrcAW == <<"a", ":w=", "1">>
SrcKeyLost == <<"docs/", "not found", ".png">>

Sources == {<<>>, SrcBig, SrcGone, SrcLost, SrcPhoto, SrcBroken, SrcNoKey}

\* (w, q) query parameters as searchParams.get returns them: a string or null
PDefault == [w |-> Null, q |-> Null]
PLossless == [w |-> Null, q |-> <<"100">>]
PResizeOnly == [w |-> <<"50">>, q |-> <<"150">>]
PWidthText == [w |-> <<"1", ":w=", "null">>, q |-> Null]

Params == {PDefault, PLossless, PResizeOnly}

\* the requests that arrive: <<source, parameters>>
Inputs ==
  { <<<<>>, PDefault>>,
    <<SrcBig, PLossless>>,
    <<SrcGone, PDefault>>, <<SrcLost, PDefault>>,
    <<SrcPhoto, PLossless>>, <<SrcPhoto, PResizeOnly>>,
    <<SrcBroken, PDefault>>, <<SrcNoKey, PDefault>> }

Buf(id, len) == [id |-> id, len |-> len]

\* fetch(src): the response of the remote server
RemoteResponse(src) ==
  CASE src = SrcBig -> [ok |-> TRUE, body |-> Buf(<<"big">>, 100000), error |-> <<>>]
    [] OTHER -> [ok |-> FALSE, body |-> Buf(<<"errorpage">>, 9), error |-> <<>>]

\* s3Client.file(src).arrayBuffer(): the object, or the code of the S3Error it
\* rejects with
BucketObject(src) ==
  CASE src = SrcPhoto -> [ok |-> TRUE, body |-> Buf(<<"photo">>, 200), error |-> <<>>]
    [] src = SrcBroken -> [ok |-> TRUE, body |-> Buf(<<"broken">>, 50), error |-> <<>>]
    [] src = SrcEmpty -> [ok |-> TRUE, body |-> Buf(<<"empty">>, 0), error |-> <<>>]
    [] src = SrcA -> [ok |-> TRUE, body |-> Buf(<<"a">>, 80), error |-> <<>>]
    [] src = SrcAW -> [ok |-> TRUE, body |-> Buf(<<"aw">>, 120), error |-> <<>>]
    [] OTHER -> [ok |-> FALSE, body |-> Buf(<<"none">>, 0), error |-> <<"NoSuchKey">>]

(* ---------------------------------------------------------------------- *)
(* Pure helpers of lib/index.ts                                            *)
(* ---------------------------------------------------------------------- *)

\* a test that knows one scheme only
IsUrlHttpsOnly(src) == Len(src) > 0 /\ src[1] = "https://"

\* src.startsWith("http://") || src.startsWith("https://")
IsUrl(src) == Len(src) > 0 /\ src[1] \in {"http://", "https://"}

\* `${width}` : null renders as the text null
Str(x) == IF x = Null THEN <<"null">> ELSE x

\* `img:${src}:w=${width}:q=${quality}`
ImageCacheKey(src, width, quality) ==
  <<"img:">> \o src \o <<":w=">> \o Str(width) \o <<":q=">> \o quality

\* original bytes kept under the key of the source's lossless derivative
OriginalCacheKeyShared(src) == ImageCacheKey(src, Null, <<"100">>)

\* `original:${src}`
OriginalCacheKey(src) == <<"original:">> \o src

\* a time to live of one day
CacheTtlOneDay == 60 * 60 * 24

\* 60 * 60 * 24 * 7
CacheTtl == 60 * 60 * 24 * 7

\* url.searchParams.get("q") || "75"
DefaultQuality == <<"75">>

QualityOf(q) == IF q = Null \/ q = <<>> THEN DefaultQuality ELSE q

\* imageBuffer.toString("base64"): 4 characters per started group of 3 bytes
ToBase64(b) ==
  [id |-> b.id, chars |-> 4 * ((b.len + 2) \div 3), pad |-> (3 - (b.len % 3)) % 3]

\* Buffer.from(cachedImage, "base64")
FromBase64(s) == [id |-> s.id, len |-> (s.chars \div 4) * 3 - s.pad]

\* if (cachedImage): a string is truthy unless it is empty
Truthy(s) == s.chars > 0

\* stands for NaN, which no parsed parameter equals
NaN == 0 - 1

\* parseInt(text, 10) of the parameter texts in use: the number the text
\* starts with, whatever follows it, and NaN when it starts with none
ParseInt(text) ==
  IF text = <<>> THEN NaN
  ELSE CASE text[1] = "1" -> 1
         [] text[1] = "50" -> 50
         [] text[1] = "75" -> 75
         [] text[1] = "100" -> 100
         [] text[1] = "150" -> 150
         [] text[1] = "-5" -> 0 - 5
         [] OTHER -> NaN

\* sharp is not given this step
NoOp == NaN

\* processImage: the resize width handed to sharp, NoOp when resize is skipped
ResizeWidth(width) ==
  IF width /= Null /\ width /= <<>> /\ ParseInt(width) /= NaN
    THEN ParseInt(width) ELSE NoOp

\* a quality handed to sharp whatever its value
WebpQualityUnchecked(quality) == ParseInt(quality)

\* processImage: the webp quality handed to sharp, NoOp when webp is skipped
WebpQuality(quality) ==
  IF ParseInt(quality) /= NaN /\ ParseInt(quality) >= 0 /\ ParseInt(quality) <= 100
    THEN ParseInt(quality) ELSE NoOp

\* sharp(buffer): rejects an empty or undecodable input
SharpRejects(b) == b.len = 0 \/ b.id = <<"broken">>

\* size of sharp's output: deterministic in (input, resize, webp)
SharpLen(b, rw, wq) ==
  LET base == IF rw = NoOp THEN b.len ELSE b.len \div 4
  IN  CASE wq = NoOp -> base
        [] wq = 100 -> base + 1
        [] OTHER -> base \div 2

\* imageProcess.toBuffer()
Sharp(b, rw, wq) == Buf(<<"sharp">> \o b.id \o <<"resize", rw, "webp", wq>>, SharpLen(b, rw, wq))

\* (((originalSize - optimizedSize) / originalSize) * 100).toFixed(2):
\* sign and hundredths of the printed number, rounded half up in magnitude
SavingsFixed(originalSize, optimizedSize) ==
  LET d == originalSize - optimizedSize
      mag == IF d < 0 THEN -d ELSE d
  IN  [neg |-> d < 0,
       hundredths |-> (2 * mag * 10000 + originalSize) \div (2 * originalSize)]

\* parseFloat(savings) < 0 : "-0.00" parses to -0, which is not below 0
ReturnOriginal(originalSize, optimizedSize) ==
  LET s == SavingsFixed(originalSize, optimizedSize)
  IN  s.neg /\ s.hundredths > 0

\* caching whichever buffer the response carries
CachedPayloadServed(originalBuffer, processedImage) ==
  IF ReturnOriginal(originalBuffer.len, processedImage.len)
    THEN originalBuffer ELSE processedImage

\* the buffer handed to cacheImage
CachedPayload(originalBuffer, processedImage) == processedImage

\* error.message.includes("not found")
NotFoundTokens == {"Image not found in R2 bucket: ", "not found"}

IncludesNotFound(msg) == \E i \in 1..Len(msg) : msg[i] \in NotFoundTokens

\* s3Error.message.includes("NoSuchKey")
IncludesNoSuchKey(msg) == \E i \in 1..Len(msg) : msg[i] = "NoSuchKey"

\* s3Error.message of an S3Error with this code: the text is the client
\* library's, which carries the code in s3Error.code and may or may not repeat
\* it in the message next to the service's sentence
S3ErrorMessages(code) == {code \o <<": the specified key does not exist">>,
                          <<"The specified key does not exist.">>}

RedisError == <<"Connection closed">>
SharpError == <<"Input buffer contains unsupported image format">>

NoBuf == Buf(<<"none">>, 0)

\* an error sent with the headers of the image responses
JsonResponseAsImage(status, msg) ==
  [status |-> status, contentType |-> "image/webp", xcache |-> "MISS",
   body |-> NoBuf, error |-> msg]

\* new Response(JSON.stringify({ error }), { status, headers: Content-Type json })
JsonResponse(status, msg) ==
  [status |-> status, contentType |-> "application/json", xcache |-> "none",
   body |-> NoBuf, error |-> msg]

\* new Response(new Uint8Array(buffer), { headers: Content-Type webp, X-Cache })
ImageResponse(buffer, xcache) ==
  [status |-> 200, contentType |-> "image/webp", xcache |-> xcache,
   body |-> buffer, error |-> <<>>]

\* the catch block of handleImageRequest
ErrorResponse(msg) ==
  IF IncludesNotFound(msg) THEN JsonResponse(404, msg) ELSE JsonResponse(500, msg)

\* new URL(req.url), as far as the server and the handler look at it: how many
\* segments url.pathname has (the pieces between literal slashes), the text
\* the path stands for once its percent-escapes are decoded, and whether every
\* escape is well formed
Url(segments, text, wellFormed) ==
  [segments |-> segments, text |-> text, wellFormed |-> wellFormed]

NoUrl == Url(0, <<>>, TRUE)

\* the URL of a client that percent-encoded the source into the one segment
\* after the leading slash
UrlOf(s) == Url(IF s = <<>> THEN 0 ELSE 1, s, TRUE)

NoResponse == [status |-> 0, contentType |-> "none", xcache |-> "none",
               body |-> NoBuf, error |-> <<>>]

(* ---------------------------------------------------------------------- *)
(* State                                                                   *)
(* ---------------------------------------------------------------------- *)
VARIABLES
  phase,          \* module top level: "initializeCache", "connect" (its await),
                  \* "initializeS3Client", "serving"
  connection,     \* the RedisClient object made at startup: "none", "connected",
                  \* "failed" (connect rejected or lost the race), "late"
  redis,          \* NoClient or "client"
  isCacheEnabled,
  s3Client,       \* NoClient or "client"
  cache,          \* the redis server the process is connected to: a set of
                  \* entries [key, val, ttl, own]; own: this process wrote it
  pc,             \* per request: position in handleImageRequest
  src, width, quality,
  originalBuffer, processedImage,
  resp,           \* the Response the handler resolved to
  log,            \* per request: the collaborator calls it made, in order
  afterPrev,      \* per request: the request before it was answered when it arrived
  expired,        \* an entry this process wrote has expired
  fault,          \* per request: a redis call of it threw
  umamiService,   \* NoClient or "service"
  url,            \* per request: req.url as the URL parser sees it
  token,          \* UmamiService.token: NoClient, "config" or "login"
  isAuthenticated \* UmamiService.isAuthenticated

vars == <<phase, connection, redis, isCacheEnabled, s3Client, cache, pc, src, width,
          quality, originalBuffer, processedImage, resp, log, afterPrev, expired, fault,
          umamiService, url, token, isAuthenticated>>

\* a transform whose output differs from one run to the next: it carries the
\* moment it ran, told here by how much the cache held
TransformUnstable(b, w, q) ==
  LET out == Sharp(b, ResizeWidth(w), WebpQuality(q))
  IN  Buf(out.id \o <<"run", Cardinality(cache)>>, out.len)

\* processImage(imageBuffer, width, quality)
Transform(b, w, q) == Sharp(b, ResizeWidth(w), WebpQuality(q))

\* what the redis server may hold when the process connects to it: nothing,
\* or the original-bytes entry an earlier process wrote, some of its time to
\* live left
Leftover ==
  {[key |-> <<"original:">> \o SrcPhoto,
    val |-> ToBase64(BucketObject(SrcPhoto).body), ttl |-> 1, own |-> FALSE]}


Init ==
  /\ phase = "initializeCache"
  /\ connection = "none"
  /\ redis = NoClient
  /\ isCacheEnabled = FALSE
  /\ s3Client = NoClient
  /\ cache = {}
  /\ pc = [r \in Req |-> "idle"]
  /\ src = [r \in Req |-> <<>>]
  /\ width = [r \in Req |-> Null]
  /\ quality = [r \in Req |-> DefaultQuality]
  /\ originalBuffer = [r \in Req |-> NoBuf]
  /\ processedImage = [r \in Req |-> NoBuf]
  /\ resp = [r \in Req |-> NoResponse]
  /\ log = [r \in Req |-> <<>>]
  /\ afterPrev = [r \in Req |-> FALSE]
  /\ expired = FALSE
  /\ fault = [r \in Req |-> FALSE]
  /\ umamiService = NoClient
  /\ url = [r \in Req |-> NoUrl]
  /\ token = NoClient
  /\ isAuthenticated = FALSE


(* ---------------------------------------------------------------------- *)
(* Startup: the module's top level awaits both, in this order              *)
(* ---------------------------------------------------------------------- *)

\* initializeCache up to its await: redis = new Bun.RedisClient(REDIS_URL)
NewRedisClient ==
  /\ phase = "initializeCache"
  /\ redis' = "client"
  /\ phase' = "connect"
  /\ UNCHANGED <<token, isAuthenticated, umamiService, url, connection, isCacheEnabled, s3Client, cache, pc, src,
                 width, quality, originalBuffer, processedImage, resp, log, afterPrev,
                 expired, fault>>

\* a catch block that drops the client and leaves caching on
ConnectFailedCachingOn == redis' = NoClient /\ isCacheEnabled' = TRUE

\* catch: redis = null; isCacheEnabled = false
ConnectFailed == redis' = NoClient /\ isCacheEnabled' = FALSE

\* how the race of redis.connect() against the 1000 ms timer ends
RaceOutcomes == {"connected", "rejected", "timeout"}

\* initializeCache after its await: isCacheEnabled = true, or the catch block
RaceSettles(outcome) ==
  /\ phase = "connect"
  /\ IF outcome = "connected"
       THEN /\ isCacheEnabled' = TRUE
            /\ UNCHANGED redis
            /\ connection' = "connected"
            /\ cache' \in {{}, Leftover}
       ELSE /\ ConnectFailed
            /\ connection' = "failed"
            /\ UNCHANGED cache
  /\ phase' = "initializeS3Client"
  /\ UNCHANGED <<token, isAuthenticated, umamiService, url, s3Client, pc, src, width, quality, originalBuffer,
                 processedImage, resp, log, afterPrev, expired, fault>>

\* initializeCache: the race of redis.connect() against the 1000 ms timer
InitializeCache == \E outcome \in RaceOutcomes : RaceSettles(outcome)

\* a connect callback that turns caching on
OnConnectEnables == redis' = "client" /\ isCacheEnabled' = TRUE

\* redis.onconnect = () => { logger.info(...) }
OnConnect == UNCHANGED <<redis, isCacheEnabled>>

\* the client object the failed startup left behind connects after all (the
\* connect that lost the race completes, or the client reconnects on its own)
LateConnect ==
  /\ connection = "failed"
  /\ connection' = "late"
  /\ OnConnect
  /\ UNCHANGED <<token, isAuthenticated, umamiService, url, phase, s3Client, cache, pc, src, width, quality, originalBuffer,
                 processedImage, resp, log, afterPrev, expired, fault>>

\* a catch block that keeps the client whose probe failed
ProbedClientKept(settings, probe) == IF settings THEN "client" ELSE NoClient

\* s3Client after initializeS3Client: the client exists when all R2 settings
\* are present and the list probe did not throw
ProbedClient(settings, probe) == IF settings /\ probe THEN "client" ELSE NoClient

\* initializeS3Client with these settings and this outcome of s3Client.list
ProbeSettles(settings, probe) ==
  /\ phase = "initializeS3Client"
  /\ s3Client' = ProbedClient(settings, probe)
  /\ phase' = "serving"
  /\ UNCHANGED <<token, isAuthenticated, umamiService, url, connection, redis, isCacheEnabled, cache, pc, src, width, quality,
                 originalBuffer, processedImage, resp, log, afterPrev, expired, fault>>

InitializeS3Client == \E settings \in BOOLEAN, probe \in BOOLEAN : ProbeSettles(settings, probe)

\* a server that takes requests while the module is still loading
ModuleLoadedAtOnce == TRUE

\* both top-level awaits are over: the importing server registers its routes
ModuleLoaded == phase = "serving"

\* getServiceStatus(), without its timestamp
GetServiceStatus ==
  [redis |-> IF isCacheEnabled /\ redis /= NoClient THEN "connected" ELSE "disabled",
   s3 |-> IF s3Client /= NoClient THEN "connected" ELSE "disabled"]

(* ---------------------------------------------------------------------- *)
(* The redis server                                                        *)
(* ---------------------------------------------------------------------- *)

\* a cache helper without its guard
CacheAlwaysUsed == TRUE

\* if (!isCacheEnabled || !redis) return
CacheAvailable == isCacheEnabled /\ redis /= NoClient

Entries(key) == {e \in cache : e.key = key}

\* a write that never reaches the server
PutDropped(key, value) == cache

\* redis.set(key, value, "EX", ttl)
Put(key, value) ==
  (cache \ Entries(key)) \cup {[key |-> key, val |-> value, ttl |-> CacheTtl, own |-> TRUE]}

\* days pass between requests (a request lasts seconds, an entry 7 days):
\* every entry is left with the last second of its time to live
Elapse ==
  /\ \A r \in Req : pc[r] \in {"idle", "done"}
  /\ \E e \in cache : e.ttl = CacheTtl
  /\ cache' = {[e EXCEPT !.ttl = 1] : e \in cache}
  /\ UNCHANGED <<token, isAuthenticated, umamiService, url, phase, connection, redis, isCacheEnabled, s3Client, pc, src, width, quality,
                 originalBuffer, processedImage, resp, log, afterPrev, expired, fault>>

\* the entry's time to live runs out: the server drops it
Expire ==
  /\ \E e \in cache :
       /\ e.ttl < CacheTtl
       /\ cache' = cache \ {e}
       /\ expired' = (expired \/ e.own)
  /\ UNCHANGED <<token, isAuthenticated, umamiService, url, phase, connection, redis, isCacheEnabled, s3Client, pc, src, width, quality,
                 originalBuffer, processedImage, resp, log, afterPrev, fault>>

(* ---------------------------------------------------------------------- *)
(* handleImageRequest                                                      *)
(* ---------------------------------------------------------------------- *)

\* a collaborator call that is made again right after it returned
CalledTwice(r, op) == log' = [log EXCEPT ![r] = @ \o <<op, op>>]

\* the handler makes the collaborator call op
Called(r, op) == log' = [log EXCEPT ![r] = Append(@, op)]

\* a response kept in a variable all requests share
ReturnShared(r, response) ==
  /\ resp' = [q \in Req |-> IF q = r \/ pc[q] = "done" THEN response ELSE resp[q]]
  /\ pc' = [pc EXCEPT ![r] = "done"]

\* return new Response(...): the promise resolves with it, after the finally
\* block when the analytics service is there
Return(r, response) ==
  /\ resp' = [resp EXCEPT ![r] = response]
  /\ pc' = [pc EXCEPT ![r] = IF umamiService = NoClient THEN "done" ELSE "finally"]

Goto(r, label) ==
  /\ pc' = [pc EXCEPT ![r] = label]
  /\ UNCHANGED resp

\* a redis call rejected: the error reaches the nearest catch
Threw(r) == fault' = [fault EXCEPT ![r] = TRUE]

\* a handler without the validation
SourceNeverMissing(s) == FALSE

\* if (!src)
SourceMissing(s) == s = <<>>

\* the handler up to its first await: parse the request, validate the source.
\* Requests arrive in the order of their numbers; the first two may be in
\* flight together, and each later one arrives when those before it are answered
Start(r, s, p) ==
  /\ ModuleLoaded
  /\ pc[r] = "idle"
  /\ <<s, p>> \in Inputs
  /\ IF r = 1 THEN TRUE ELSE pc[r - 1] /= "idle"
  /\ r > 2 => \A q \in 1..(r - 1) : pc[q] = "done"
  /\ url' = [url EXCEPT ![r] = UrlOf(s)]
  /\ src' = [src EXCEPT ![r] = s]
  /\ width' = [width EXCEPT ![r] = p.w]
  /\ quality' = [quality EXCEPT ![r] = QualityOf(p.q)]
  /\ afterPrev' = [afterPrev EXCEPT ![r] = IF r = 1 THEN FALSE ELSE pc[r - 1] = "done"]
  /\ IF SourceMissing(s)
       THEN Return(r, JsonResponse(400, <<"Source image is required">>))
       ELSE Goto(r, "getCachedImage")
  /\ UNCHANGED <<token, isAuthenticated, umamiService, phase, connection, redis, isCacheEnabled, s3Client, cache,
                 originalBuffer, processedImage, log, expired, fault>>

\* a hit that also writes the entry back, which restarts its time to live
ServeHitAndRecache(r, e) ==
  /\ Return(r, ImageResponse(FromBase64(e.val), "HIT"))
  /\ cache' = Put(e.key, e.val)

\* if (cachedImage) return new Response(new Uint8Array(cachedImage), X-Cache HIT)
ServeHit(r, e) ==
  /\ Return(r, ImageResponse(FromBase64(e.val), "HIT"))
  /\ UNCHANGED cache

\* await getCachedImage(src, width, quality), and the fast path on a hit
GetCachedImage(r) ==
  /\ pc[r] = "getCachedImage"
  /\ LET key == ImageCacheKey(src[r], width[r], quality[r])
     IN  IF ~CacheAvailable
           THEN Goto(r, "getImageBuffer") /\ UNCHANGED <<cache, log, fault>>
           ELSE /\ Called(r, "get img")
                /\ \/ \E e \in Entries(key) :
                        /\ Truthy(e.val)
                        /\ ServeHit(r, e)
                        /\ UNCHANGED fault
                   \/ /\ \A e \in Entries(key) : ~Truthy(e.val)
                      /\ Goto(r, "getImageBuffer")
                      /\ UNCHANGED <<cache, fault>>
                   \/ /\ Return(r, ErrorResponse(RedisError))
                      /\ Threw(r)
                      /\ UNCHANGED cache
  /\ UNCHANGED <<token, isAuthenticated, umamiService, url, phase, connection, redis, isCacheEnabled, s3Client, src, width, quality,
                 originalBuffer, processedImage, afterPrev, expired>>

\* getImageBuffer, URL branch: await fetch(src)
FetchUrl(r) ==
  /\ pc[r] = "getImageBuffer"
  /\ IsUrl(src[r])
  /\ Called(r, "fetch")
  /\ LET res == RemoteResponse(src[r])
     IN  IF res.ok
           THEN /\ originalBuffer' = [originalBuffer EXCEPT ![r] = res.body]
                /\ Goto(r, "processImage")
           ELSE /\ Return(r, ErrorResponse(<<"Failed to fetch image from URL: ">> \o src[r]))
                /\ UNCHANGED originalBuffer
  /\ UNCHANGED <<token, isAuthenticated, umamiService, url, phase, connection, redis, isCacheEnabled, s3Client, cache, src, width, quality,
                 processedImage, afterPrev, expired, fault>>

\* the catch block of getImageBuffer's bucket branch
BucketError(s, msg) ==
  IF IncludesNoSuchKey(msg)
    THEN <<"Image not found in R2 bucket: ">> \o s
    ELSE <<"Failed to read image from R2: ">> \o s

\* a lookup whose bytes are not returned: the bucket is read all the same
AfterOriginalHitReadsBucket == "s3File"

\* if (cachedOriginal) return cachedOriginal: getImageBuffer is over
AfterOriginalHit == "processImage"

\* getImageBuffer, bucket branch: await getCachedOriginalImage(src)
GetCachedOriginalImage(r) ==
  /\ pc[r] = "getImageBuffer"
  /\ ~IsUrl(src[r])
  /\ LET key == OriginalCacheKey(src[r])
     IN  IF ~CacheAvailable
           THEN Goto(r, "s3File") /\ UNCHANGED <<originalBuffer, log, fault>>
           ELSE /\ Called(r, "get original")
                /\ \/ \E e \in Entries(key) :
                        /\ Truthy(e.val)
                        /\ originalBuffer' = [originalBuffer EXCEPT ![r] = FromBase64(e.val)]
                        /\ Goto(r, AfterOriginalHit)
                        /\ UNCHANGED fault
                   \/ /\ \A e \in Entries(key) : ~Truthy(e.val)
                      /\ Goto(r, "s3File")
                      /\ UNCHANGED <<originalBuffer, fault>>
                   \/ /\ Return(r, ErrorResponse(BucketError(src[r], RedisError)))
                      /\ Threw(r)
                      /\ UNCHANGED originalBuffer
  /\ UNCHANGED <<token, isAuthenticated, umamiService, url, phase, connection, redis, isCacheEnabled, s3Client, cache, src, width, quality,
                 processedImage, afterPrev, expired>>

\* getImageBuffer, bucket branch: s3Client.file(src).arrayBuffer()
S3File(r) ==
  /\ pc[r] = "s3File"
  /\ IF s3Client = NoClient
       THEN /\ Return(r, ErrorResponse(BucketError(src[r],
                       <<"S3 client not initialized. Please set R2 credentials.">>)))
            /\ UNCHANGED <<originalBuffer, log>>
       ELSE /\ Called(r, "s3")
            /\ LET res == BucketObject(src[r])
               IN  IF res.ok
                     THEN /\ originalBuffer' = [originalBuffer EXCEPT ![r] = res.body]
                          /\ Goto(r, "cacheOriginalImage")
                     ELSE /\ \E msg \in S3ErrorMessages(res.error) :
                               Return(r, ErrorResponse(BucketError(src[r], msg)))
                          /\ UNCHANGED originalBuffer
  /\ UNCHANGED <<token, isAuthenticated, umamiService, url, phase, connection, redis, isCacheEnabled, s3Client, cache, src, width, quality,
                 processedImage, afterPrev, expired, fault>>

\* getImageBuffer, bucket branch: await cacheOriginalImage(src, imageBuffer)
CacheOriginalImage(r) ==
  /\ pc[r] = "cacheOriginalImage"
  /\ IF ~CacheAvailable
       THEN Goto(r, "processImage") /\ UNCHANGED <<cache, log, fault>>
       ELSE /\ Called(r, "set original")
            /\ \/ /\ cache' = Put(OriginalCacheKey(src[r]), ToBase64(originalBuffer[r]))
                  /\ Goto(r, "processImage")
                  /\ UNCHANGED fault
               \/ /\ Return(r, ErrorResponse(BucketError(src[r], RedisError)))
                  /\ Threw(r)
                  /\ UNCHANGED cache
  /\ UNCHANGED <<token, isAuthenticated, umamiService, url, phase, connection, redis, isCacheEnabled, s3Client, src, width, quality,
                 originalBuffer, processedImage, afterPrev, expired>>

\* await processImage(originalBuffer, width, quality)
ProcessImage(r) ==
  /\ pc[r] = "processImage"
  /\ Called(r, "sharp")
  /\ IF SharpRejects(originalBuffer[r])
       THEN /\ Return(r, ErrorResponse(SharpError))
            /\ UNCHANGED processedImage
       ELSE /\ processedImage' = [processedImage EXCEPT ![r] =
                                    Transform(originalBuffer[r], width[r], quality[r])]
            /\ Goto(r, "cacheImage")
  /\ UNCHANGED <<token, isAuthenticated, umamiService, url, phase, connection, redis, isCacheEnabled, s3Client, cache, src, width, quality,
                 originalBuffer, afterPrev, expired, fault>>

\* the response of a request that fetched and transformed
MissResponse(original, processed) ==
  IF ReturnOriginal(original.len, processed.len)
    THEN ImageResponse(original, "MISS")
    ELSE ImageResponse(processed, "MISS")

\* await cacheImage(src, width, quality, processedImage), then the response
CacheImage(r) ==
  /\ pc[r] = "cacheImage"
  /\ IF ~CacheAvailable
       THEN /\ Return(r, MissResponse(originalBuffer[r], processedImage[r]))
            /\ UNCHANGED <<cache, log, fault>>
       ELSE /\ Called(r, "set img")
            /\ \/ /\ cache' = Put(ImageCacheKey(src[r], width[r], quality[r]),
                                  ToBase64(CachedPayload(originalBuffer[r], processedImage[r])))
                  /\ Return(r, MissResponse(originalBuffer[r], processedImage[r]))
                  /\ UNCHANGED fault
               \/ /\ Return(r, ErrorResponse(RedisError))
                  /\ Threw(r)
                  /\ UNCHANGED cache
  /\ UNCHANGED <<token, isAuthenticated, umamiService, url, phase, connection, redis, isCacheEnabled, s3Client, src, width, quality,
                 originalBuffer, processedImage, afterPrev, expired>>

Next ==
  \/ NewRedisClient
  \/ InitializeCache
  \/ InitializeS3Client
  \/ LateConnect
  \/ Elapse
  \/ Expire
  \/ \E r \in Req, s \in Sources, p \in Params : Start(r, s, p)
  \/ \E r \in Req : GetCachedImage(r)
  \/ \E r \in Req : FetchUrl(r)
  \/ \E r \in Req : GetCachedOriginalImage(r)
  \/ \E r \in Req : S3File(r)
  \/ \E r \in Req : CacheOriginalImage(r)
  \/ \E r \in Req : ProcessImage(r)
  \/ \E r \in Req : CacheImage(r)

Spec == Init /\ [][Next]_vars

(* ---------------------------------------------------------------------- *)
(* The server in front of the handler, and the handler with analytics      *)
(* ---------------------------------------------------------------------- *)

\* requests that arrive at the server: <<URL, parameters>>
Arrivals ==
  { <<Url(2, SrcPhoto, TRUE), PLossless>>,         \* /images/photo.jpg?q=100
    <<Url(1, SrcPhoto, TRUE), PLossless>>,         \* /images%2Fphoto.jpg?q=100
    <<Url(1, <<"%E0%A4%A">>, FALSE), PDefault>>,   \* /%E0%A4%A
    <<Url(1, SrcEmpty, TRUE), PDefault>>,          \* /empty.bin
    <<Url(1, SrcA, TRUE), PWidthText>>,            \* /a?w=1:w=null
    <<Url(1, SrcAW, TRUE), PDefault>>,             \* /a%3Aw%3D1
    <<Url(1, SrcGone, TRUE), PDefault>>,           \* /http%3A%2F%2Fx%2Fgone.jpg
    <<Url(1, SrcKeyLost, TRUE), PDefault>>,        \* /docs%2Fnot%20found.png
    <<Url(1, <<"health">>, TRUE), PDefault>> }     \* /health

\* Bun.serve routes: the static routes, then "/:src", whose parameter stands
\* for one path segment, then the fetch fallback
Route(u) ==
  CASE u.segments = 1 /\ u.text = <<"favicon.ico">> -> "/favicon.ico"
    [] u.segments = 1 /\ u.text = <<"health">> -> "/health"
    [] u.segments = 1 -> "/:src"
    [] OTHER -> "fetch"

\* the responses of the routes that are not the handler's
RouteResponse(route) ==
  CASE route = "/favicon.ico" ->
         [status |-> 204, contentType |-> "none", xcache |-> "none",
          body |-> NoBuf, error |-> <<>>]
    [] route = "/health" ->
         [status |-> 200, contentType |-> "application/json", xcache |-> "none",
          body |-> Buf(<<"healthy", GetServiceStatus.redis, GetServiceStatus.s3>>, 3),
          error |-> <<>>]
    [] OTHER ->
         [status |-> 404, contentType |-> "text/plain", xcache |-> "none",
          body |-> NoBuf, error |-> <<"Not Found">>]

\* the message of the URIError decodeURIComponent throws
URIError == <<"URI malformed">>

\* what getDefaultUmamiConfig returns when the hostname and the website id are
\* set: the credentials (username and password) and the token may each be there
UmamiConfigs == [credentials : BOOLEAN, token : BOOLEAN]

\* the fields of the service, as a record
AuthState(t, a) == [token |-> t, isAuthenticated |-> a]

\* UmamiService.authenticate(): the configured token is taken as it is,
\* otherwise the login endpoint is asked
Authenticate(config, accepts) ==
  IF config.token THEN AuthState("config", TRUE)
  ELSE IF ~config.credentials THEN AuthState(token, isAuthenticated)
  ELSE IF accepts THEN AuthState("login", TRUE)
  ELSE AuthState(token, isAuthenticated)

\* UmamiService.verifyToken(): without a token in this.token it returns at
\* once, otherwise the verify endpoint decides
VerifyToken(accepts) ==
  IF token = NoClient THEN AuthState(token, isAuthenticated)
  ELSE IF accepts THEN AuthState(token, TRUE)
  ELSE AuthState(NoClient, FALSE)

\* UmamiService.getAuthStatus()
GetAuthStatus == [isAuthenticated |-> isAuthenticated, hasToken |-> token /= NoClient]

\* createUmamiService(config) with this answer of the endpoint it asks, then
\* .then(service => umamiService = service)
CreateUmamiService(config, accepts) ==
  /\ umamiService = NoClient
  /\ LET after == IF config.credentials THEN Authenticate(config, accepts)
                  ELSE IF config.token THEN VerifyToken(accepts)
                  ELSE AuthState(token, isAuthenticated)
     IN /\ token' = after.token
        /\ isAuthenticated' = after.isAuthenticated
  /\ umamiService' = "service"
  /\ UNCHANGED <<phase, connection, redis, isCacheEnabled, s3Client, cache, pc, src, width,
                 quality, originalBuffer, processedImage, resp, log, afterPrev, expired,
                 fault, url>>

\* the module creates the service when the analytics settings are there
UmamiReady ==
  \E config \in UmamiConfigs, accepts \in BOOLEAN : CreateUmamiService(config, accepts)

\* trackImageOptimization, then trackEvent: the event is posted to /api/send
\* only when the service is authenticated
TrackEvent(r) ==
  log' = [log EXCEPT ![r] = IF isAuthenticated THEN @ \o <<"track", "send">>
                            ELSE Append(@, "track")]

\* request r is over: its promise resolved or rejected
Over(r) == pc[r] \in {"done", "rejected"}

\* the server dispatches the request; on the "/:src" route the handler runs up
\* to its first await: parse the URL, decode the path, validate the source
Serve(r, u, p) ==
  /\ ModuleLoaded
  /\ pc[r] = "idle"
  /\ <<u, p>> \in Arrivals
  /\ IF r = 1 THEN TRUE ELSE pc[r - 1] /= "idle"
  /\ r > 2 => \A q \in 1..(r - 1) : Over(q)
  /\ url' = [url EXCEPT ![r] = u]
  /\ afterPrev' = [afterPrev EXCEPT ![r] = IF r = 1 THEN FALSE ELSE Over(r - 1)]
  /\ IF Route(u) /= "/:src"
       THEN /\ resp' = [resp EXCEPT ![r] = RouteResponse(Route(u))]
            /\ pc' = [pc EXCEPT ![r] = "done"]
            /\ UNCHANGED <<src, width, quality>>
       ELSE IF ~u.wellFormed
         THEN /\ Return(r, ErrorResponse(URIError))
              /\ UNCHANGED <<src, width, quality>>
         ELSE /\ src' = [src EXCEPT ![r] = u.text]
              /\ width' = [width EXCEPT ![r] = p.w]
              /\ quality' = [quality EXCEPT ![r] = QualityOf(p.q)]
              /\ IF SourceMissing(u.text)
                   THEN Return(r, JsonResponse(400, <<"Source image is required">>))
                   ELSE Goto(r, "getCachedImage")
  /\ UNCHANGED <<token, isAuthenticated, umamiService, phase, connection, redis, isCacheEnabled, s3Client, cache,
                 originalBuffer, processedImage, log, expired, fault>>

\* the finally block: it parses and decodes req.url again, outside any try,
\* and awaits trackImageOptimization, which catches its own errors. A
\* URIError thrown here replaces the response: the promise rejects
Finally(r) ==
  /\ pc[r] = "finally"
  /\ IF url[r].wellFormed
       THEN /\ TrackEvent(r)
            /\ pc' = [pc EXCEPT ![r] = "done"]
            /\ UNCHANGED resp
       ELSE /\ pc' = [pc EXCEPT ![r] = "rejected"]
            /\ resp' = [resp EXCEPT ![r] = NoResponse]
            /\ UNCHANGED log
  /\ UNCHANGED <<token, isAuthenticated, umamiService, url, phase, connection, redis, isCacheEnabled, s3Client, cache,
                 src, width, quality, originalBuffer, processedImage, afterPrev, expired,
                 fault>>

\* the steps of request r once the server has dispatched it
Handler(r) ==
  \/ GetCachedImage(r)
  \/ FetchUrl(r)
  \/ GetCachedOriginalImage(r)
  \/ S3File(r)
  \/ CacheOriginalImage(r)
  \/ ProcessImage(r)
  \/ CacheImage(r)
  \/ Finally(r)

\* requests within the time to live of what they write
ServerNext ==
  \/ NewRedisClient
  \/ InitializeCache
  \/ InitializeS3Client
  \/ LateConnect
  \/ UmamiReady
  \/ \E r \in Req, a \in Arrivals : Serve(r, a[1], a[2])
  \/ \E r \in Req : Handler(r)

\* every awaited call returns or fails: a request that can take a step takes one
ServerSpec == Init /\ [][ServerNext]_vars /\ \A r \in Req : WF_vars(Handler(r))



(* ---------------------------------------------------------------------- *)
(* Vocabulary of the properties                                            *)
(* ---------------------------------------------------------------------- *)

Answered(r) == pc[r] = "done"

KeyOf(r) == ImageCacheKey(src[r], width[r], quality[r])

SameRequest(a, b) ==
  src[a] = src[b] /\ width[a] = width[b] /\ quality[a] = quality[b]

LastCall(r) == IF log[r] = <<>> THEN "none" ELSE log[r][Len(log[r])]

Calls(r) == {log[r][i] : i \in 1..Len(log[r])}

\* the request got through fetch and transform
Transformed(r) == pc[r] \in {"cacheImage", "done"} /\ processedImage[r] /= NoBuf

\* the bytes the backend of s holds
Stored(s) == IF IsUrl(s) THEN RemoteResponse(s) ELSE BucketObject(s)

\* the answers of a request that meets no cache at all: fetch, transform, respond
Uncached(s, w, q) ==
  CASE IsUrl(s) /\ ~RemoteResponse(s).ok ->
         {ErrorResponse(<<"Failed to fetch image from URL: ">> \o s)}
    [] ~IsUrl(s) /\ s3Client = NoClient ->
         {ErrorResponse(<<"Failed to read image from R2: ">> \o s)}
    [] ~IsUrl(s) /\ s3Client /= NoClient /\ ~BucketObject(s).ok ->
         {ErrorResponse(BucketError(s, msg)) : msg \in S3ErrorMessages(BucketObject(s).error)}
    [] OTHER ->
         IF SharpRejects(Stored(s).body)
           THEN {ErrorResponse(SharpError)}
           ELSE LET out == Transform(Stored(s).body, w, q)
                IN  IF ReturnOriginal(Stored(s).body.len, out.len)
                      THEN {ImageResponse(Stored(s).body, "MISS")}
                      ELSE {ImageResponse(out, "MISS")}


(* ---------------------------------------------------------------------- *)
(* C1                                                                      *)
(* ---------------------------------------------------------------------- *)

\* b repeats a: the same request, the next to arrive, after a was answered with
\* 200, the cache enabled, no redis call of either failing, no entry expiring
Repeats(a, b) ==
  /\ b = a + 1 /\ Answered(a) /\ Answered(b)
  /\ afterPrev[b]
  /\ SameRequest(a, b) /\ src[a] /= <<>>
  /\ resp[a].status = 200
  /\ isCacheEnabled /\ redis /= NoClient
  /\ ~fault[a] /\ ~fault[b] /\ ~expired

\* C1: a request repeated after it succeeded, with a healthy cache and no
\* expiry in between, is answered X-Cache HIT with the same body as the first
C1_RepeatIsHitWithSameBody ==
  \A a, b \in Req :
    Repeats(a, b) => resp[b].xcache = "HIT" /\ resp[b].body = resp[a].body

(* ---------------------------------------------------------------------- *)
(* C2                                                                      *)
(* ---------------------------------------------------------------------- *)

\* C2: a cache-miss request whose transform output is larger than the original,
\* by any amount, is answered with the original bytes
C2_LargerOutputServesOriginal ==
  \A r \in Req :
    ( /\ Answered(r) /\ Transformed(r) /\ ~fault[r]
      /\ processedImage[r].len > originalBuffer[r].len )
    => resp[r].body = originalBuffer[r]

(* ---------------------------------------------------------------------- *)
(* C3                                                                      *)
(* ---------------------------------------------------------------------- *)

IsDerivative(e) == e.key[1] = "img:"

\* request r wrote, or tried to write, its derivative entry
WroteDerivative(r) == "set img" \in Calls(r)

\* C3: every derivative entry is the entry of a request that wrote it, and holds
\* the transform output of the original bytes of that request's source for its
\* width and quality, never the original bytes
C3_DerivativeEntryIsTransformOutput ==
  \A e \in cache :
    IsDerivative(e) =>
      \E r \in Req :
        /\ WroteDerivative(r) /\ e.key = KeyOf(r)
        /\ Stored(src[r]).ok
        /\ e.val = ToBase64(Transform(Stored(src[r]).body, width[r], quality[r]))

\* a request was answered with the original bytes while its entry holds the
\* larger transform output
C3_Witness ==
  \E r \in Req : \E e \in cache :
    /\ Answered(r) /\ resp[r].status = 200 /\ resp[r].xcache = "MISS"
    /\ resp[r].body = originalBuffer[r]
    /\ IsDerivative(e) /\ e.key = KeyOf(r) /\ WroteDerivative(r)
    /\ e.val = ToBase64(processedImage[r])
    /\ processedImage[r].len > originalBuffer[r].len

(* ---------------------------------------------------------------------- *)
(* C4                                                                      *)
(* ---------------------------------------------------------------------- *)

\* C4: a cache-miss request whose fetch and transform succeed with an output no
\* larger than the original is answered 200, X-Cache MISS, with the output
C4_SmallerOutputIsServed ==
  \A r \in Req :
    ( /\ Answered(r) /\ Transformed(r)
      /\ processedImage[r].len <= originalBuffer[r].len )
    => resp[r] = ImageResponse(processedImage[r], "MISS")

(* ---------------------------------------------------------------------- *)
(* C5                                                                      *)
(* ---------------------------------------------------------------------- *)

\* the step in which request r reads a usable derivative entry from redis
ReadsHit(r) ==
  /\ pc[r] = "getCachedImage"
  /\ log'[r] = Append(log[r], "get img")
  /\ fault'[r] = fault[r]
  /\ \E e \in Entries(KeyOf(r)) : Truthy(e.val)

\* C5: a derivative hit ends the request in that step: cached bytes, X-Cache
\* HIT, no fetch, no bucket read, no original-cache access, no transform, and
\* the cache (entries and their time to live) is left as it was
C5_HitStep ==
  \A r \in Req :
    ReadsHit(r) =>
      /\ pc'[r] = "done"
      /\ \E e \in Entries(KeyOf(r)) :
           /\ resp'[r].status = 200 /\ resp'[r].xcache = "HIT"
           /\ ToBase64(resp'[r].body) = e.val
      /\ log'[r] = <<"get img">>
      /\ cache' = cache
      /\ originalBuffer'[r] = NoBuf /\ processedImage'[r] = NoBuf

\* a request answered from the cache made one call, the lookup
C5_HitState ==
  \A r \in Req :
    (Answered(r) /\ resp[r].xcache = "HIT") =>
      /\ log[r] = <<"get img">>
      /\ resp[r].status = 200
      /\ originalBuffer[r] = NoBuf /\ processedImage[r] = NoBuf

C5_HitIsTerminalFastPath == []C5_HitState /\ [][C5_HitStep]_vars

C5_Witness ==
  \E r \in Req :
    /\ Answered(r) /\ resp[r].xcache = "HIT" /\ log[r] = <<"get img">>
    /\ \E e \in Entries(KeyOf(r)) : e.ttl < CacheTtl


(* ---------------------------------------------------------------------- *)
(* C6                                                                      *)
(* ---------------------------------------------------------------------- *)

\* request r got its original bytes from the original-bytes cache
OriginalHit(r) ==
  "get original" \in Calls(r) /\ "s3" \notin Calls(r) /\ originalBuffer[r] /= NoBuf

CacheCalls == {"get img", "get original", "set original", "set img"}

\* the calls of a request that goes through fetch and then transform: one fetch
\* or bucket read (none without a bucket client), then sharp if it got bytes
FetchThenTransform(r) ==
  \/ /\ IsUrl(src[r])
     /\ log[r] = IF RemoteResponse(src[r]).ok THEN <<"fetch", "sharp">> ELSE <<"fetch">>
  \/ /\ ~IsUrl(src[r]) /\ s3Client = NoClient
     /\ log[r] = <<>>
  \/ /\ ~IsUrl(src[r]) /\ s3Client /= NoClient
     /\ log[r] = IF BucketObject(src[r]).ok THEN <<"s3", "sharp">> ELSE <<"s3">>

\* C6: with the cache disabled, an answered request with a source made no redis
\* call, is not a HIT, fetched and then transformed, and got the answer that
\* the same request gets from an enabled cache whose lookups all miss
C6_DisabledCacheIsAlwaysMiss ==
  \A r \in Req :
    (Answered(r) /\ src[r] /= <<>>) =>
      /\ (~isCacheEnabled \/ redis = NoClient) =>
           /\ Calls(r) \cap CacheCalls = {}
           /\ resp[r].xcache /= "HIT"
           /\ FetchThenTransform(r)
           /\ resp[r] \in Uncached(src[r], width[r], quality[r])
      /\ ( /\ isCacheEnabled /\ redis /= NoClient /\ ~fault[r]
           /\ resp[r].xcache /= "HIT" /\ ~OriginalHit(r) ) =>
           resp[r] \in Uncached(src[r], width[r], quality[r])

\* both sides of the comparison happen: a 200 without cache, and a request
\* from the bucket answered without redis
C6_Witness ==
  /\ ~isCacheEnabled
  /\ \E a, b \in Req :
       /\ Answered(a) /\ resp[a].status = 200 /\ log[a] = <<"s3", "sharp">>
       /\ Answered(b) /\ resp[b].status = 500 /\ log[b] = <<"fetch">>

(* ---------------------------------------------------------------------- *)
(* C7                                                                      *)
(* ---------------------------------------------------------------------- *)

\* C7: a redis.get that throws, in the derivative or the original lookup, is
\* not propagated: the request is answered as if the key had been absent
C7_FailedReadIsAMiss ==
  \A r \in Req :
    (Answered(r) /\ fault[r] /\ LastCall(r) \in {"get img", "get original"}) =>
      resp[r] \in Uncached(src[r], width[r], quality[r])

(* ---------------------------------------------------------------------- *)
(* C8                                                                      *)
(* ---------------------------------------------------------------------- *)

\* C8: a failing write of the derivative key after a successful fetch and
\* transform still yields the 200 response of a successful write
C8_FailedDerivativeWriteIsIgnored ==
  \A r \in Req :
    (Answered(r) /\ fault[r] /\ LastCall(r) = "set img") =>
      resp[r] = MissResponse(originalBuffer[r], processedImage[r])

(* ---------------------------------------------------------------------- *)
(* C9                                                                      *)
(* ---------------------------------------------------------------------- *)

\* C9: after a successful bucket read, a failing write of the original-bytes
\* entry does not fail the request: getImageBuffer returns the bytes read
C9_FailedOriginalWriteIsIgnored ==
  \A r \in Req :
    (fault[r] /\ LastCall(r) = "set original") =>
      /\ pc[r] = "processImage"
      /\ originalBuffer[r] = BucketObject(src[r]).body

(* ---------------------------------------------------------------------- *)
(* C10                                                                     *)
(* ---------------------------------------------------------------------- *)

\* C10: a request with an empty source is answered 400 at once, whatever the
\* cache and the bucket client are, without any lookup, fetch, transform or write
C10_EmptySourceIs400 ==
  \A r \in Req :
    (pc[r] /= "idle" /\ src[r] = <<>>) =>
      /\ Answered(r)
      /\ resp[r] = JsonResponse(400, <<"Source image is required">>)
      /\ log[r] = <<>>
      /\ originalBuffer[r] = NoBuf /\ processedImage[r] = NoBuf

\* empty sources answered 400 with a populated cache and no bucket client
C10_Witness ==
  \E r \in Req :
    /\ Answered(r) /\ src[r] = <<>> /\ resp[r].status = 400
    /\ isCacheEnabled /\ redis /= NoClient /\ cache /= {}
    /\ s3Client = NoClient

(* ---------------------------------------------------------------------- *)
(* C11                                                                     *)
(* ---------------------------------------------------------------------- *)

CacheWrites == {"set img", "set original"}

\* the bucket told request r that its key does not exist (both caches had
\* missed, or were off), and the request was answered on that
NoSuchKeyReported(r) ==
  /\ Answered(r) /\ ~IsUrl(src[r]) /\ src[r] /= <<>>
  /\ LastCall(r) = "s3" /\ ~BucketObject(src[r]).ok
  /\ BucketObject(src[r]).error = <<"NoSuchKey">>

\* C11: a bucket key that misses both caches and that the bucket reports as
\* missing is answered 404, and the request writes no cache entry
C11_MissingKeyIs404 ==
  \A r \in Req :
    NoSuchKeyReported(r) =>
      /\ resp[r].status = 404
      /\ Calls(r) \cap CacheWrites = {}

(* ---------------------------------------------------------------------- *)
(* C12                                                                     *)
(* ---------------------------------------------------------------------- *)

\* request r failed in its fetch for another reason than a missing key (the
\* remote server answered non-2xx, or there is no bucket client), or in sharp
OtherFailure(r) ==
  /\ Answered(r) /\ ~fault[r] /\ src[r] /= <<>>
  /\ \/ IsUrl(src[r]) /\ LastCall(r) = "fetch" /\ ~RemoteResponse(src[r]).ok
     \/ /\ ~IsUrl(src[r]) /\ s3Client = NoClient
        /\ originalBuffer[r] = NoBuf /\ resp[r].xcache /= "HIT"
     \/ LastCall(r) = "sharp" /\ SharpRejects(originalBuffer[r])

\* C12: a fetch failure other than a missing bucket key, and a transform
\* failure, is answered 500 whatever the text of the source is
C12_OtherFailuresAre500 ==
  \A r \in Req : OtherFailure(r) => resp[r].status = 500

(* ---------------------------------------------------------------------- *)
(* C13                                                                     *)
(* ---------------------------------------------------------------------- *)

\* C13: a URL source that the remote server answers with a non-2xx status is
\* answered 404
C13_AbsentRemoteIs404 ==
  \A r \in Req :
    ( /\ Answered(r) /\ IsUrl(src[r])
      /\ LastCall(r) = "fetch" /\ ~RemoteResponse(src[r]).ok )
    => resp[r].status = 404

(* ---------------------------------------------------------------------- *)
(* C14                                                                     *)
(* ---------------------------------------------------------------------- *)

\* C14: when sharp fails after a successful fetch the answer is 500 and the
\* request has written nothing to the cache, neither its derivative key nor
\* the original-bytes key of its source
C14_FailedTransformWritesNothing ==
  \A r \in Req :
    (Answered(r) /\ LastCall(r) = "sharp" /\ SharpRejects(originalBuffer[r])) =>
      /\ resp[r].status = 500
      /\ Calls(r) \cap CacheWrites = {}
      /\ \A e \in cache : e.own => e.key \notin {KeyOf(r), OriginalCacheKey(src[r])}

(* ---------------------------------------------------------------------- *)
(* C15                                                                     *)
(* ---------------------------------------------------------------------- *)

\* request r made the call op
Made(r, op) == \E i \in 1..Len(log[r]) : log[r][i] = op

\* request r made the call first and, after it, the call then
Before(r, first, then) ==
  \E i, j \in 1..Len(log[r]) : i < j /\ log[r][i] = first /\ log[r][j] = then

\* the step in which request r reads usable bytes from the original-bytes cache
ReadsOriginalHit(r) ==
  /\ pc[r] = "getImageBuffer" /\ ~IsUrl(src[r])
  /\ log'[r] = Append(log[r], "get original")
  /\ fault'[r] = fault[r]
  /\ \E e \in Entries(OriginalCacheKey(src[r])) : Truthy(e.val)

\* a usable original-bytes entry ends getImageBuffer in the step that reads
\* it, with the decoded bytes, whether there is a bucket client or not
C15_HitStep ==
  \A r \in Req :
    ReadsOriginalHit(r) =>
      /\ pc'[r] = "processImage"
      /\ \E e \in Entries(OriginalCacheKey(src[r])) :
           originalBuffer'[r] = FromBase64(e.val)
      /\ ~Made(r, "s3")
      /\ cache' = cache

\* with the cache in use the bucket is read only after the original-bytes
\* lookup of the same request, and a request that got its bytes from that
\* lookup never reads the bucket afterwards
C15_Order ==
  \A r \in Req :
    /\ (Made(r, "s3") /\ CacheAvailable) =>
         /\ Before(r, "get original", "s3")
         /\ ~Before(r, "s3", "get original")
    /\ OriginalHit(r) => ~Made(r, "s3")
    /\ s3Client = NoClient => ~Made(r, "s3")

\* C15: for a bucket key getImageBuffer asks the original-bytes cache before
\* the bucket, and bytes found there are returned with no bucket read, also
\* when there is no bucket client
C15_OriginalCacheBeforeBucket == []C15_Order /\ [][C15_HitStep]_vars

\* a bucket key served from the original-bytes cache by a process that has no
\* bucket client
C15_Witness ==
  \E r \in Req :
    /\ s3Client = NoClient /\ ~IsUrl(src[r])
    /\ Answered(r) /\ resp[r].status = 200 /\ resp[r].xcache = "MISS"
    /\ log[r] = <<"get img", "get original", "sharp", "set img">>
    /\ originalBuffer[r] = BucketObject(src[r]).body

(* ---------------------------------------------------------------------- *)
(* C16                                                                     *)
(* ---------------------------------------------------------------------- *)

\* getImageBuffer of request r has returned bytes it read from the bucket
ReturnedFromBucket(r) ==
  /\ pc[r] \in {"processImage", "cacheImage", "done"}
  /\ originalBuffer[r] /= NoBuf /\ Made(r, "s3")
  /\ ~(fault[r] /\ LastCall(r) = "set original")

\* request b arrived after request a was answered
Later(a, b) == b > a /\ (b = a + 1 => afterPrev[b])

BothMissed(a, b) ==
  /\ b = a + 1 /\ ~afterPrev[b] /\ SameRequest(a, b)
  /\ Answered(a) /\ Answered(b) /\ ~fault[a] /\ ~fault[b]
  /\ resp[a].status = 200 /\ resp[b].status = 200
  /\ resp[a].xcache = "MISS" /\ resp[b].xcache = "MISS"

\* request r made the call op exactly once
Once(r, op) ==
  \E i \in 1..Len(log[r]) :
    log[r][i] = op /\ \A j \in 1..Len(log[r]) : log[r][j] = op => j = i

\* request r looked up, fetched, transformed and wrote on its own
OwnPipeline(r) ==
  /\ Once(r, "get img") /\ Once(r, "sharp") /\ Once(r, "set img")
  /\ IF IsUrl(src[r]) THEN Once(r, "fetch") ELSE Once(r, "get original")
  /\ processedImage[r] = Transform(originalBuffer[r], width[r], quality[r])

\* C17: two overlapping requests for the same uncached image that both miss
\* each run their own lookup, fetch, transform and write, and both write the
\* same value, which is what the entry holds whichever write came last
C17_NoCoalescingSameValue ==
  \A a, b \in Req :
    (BothMissed(a, b) /\ CacheAvailable) =>
      /\ OwnPipeline(a) /\ OwnPipeline(b)
      /\ processedImage[a] = processedImage[b]
      /\ ~expired =>
           \E e \in Entries(KeyOf(a)) :
             /\ e.val = ToBase64(processedImage[a])
             /\ e.val = ToBase64(processedImage[b])

\* both requests fetched from the remote server and both wrote the entry
C17_Witness ==
  \E a, b \in Req :
    /\ BothMissed(a, b) /\ CacheAvailable /\ ~expired
    /\ log[a] = <<"get img", "fetch", "sharp", "set img">>
    /\ log[b] = <<"get img", "fetch", "sharp", "set img">>
    /\ \E e \in Entries(KeyOf(a)) : e.val = ToBase64(processedImage[b])

(* ---------------------------------------------------------------------- *)
(* C18                                                                     *)
(* ---------------------------------------------------------------------- *)

\* the local variables of the invocation of handleImageRequest for request r
Locals(r) == <<pc[r], src[r], width[r], quality[r], originalBuffer[r],
               processedImage[r], resp[r], log[r], fault[r]>>

\* once serving, no step assigns redis, isCacheEnabled or s3Client, and a step
\* of one request leaves the locals of every other request as they were
C18_Frame ==
  phase = "serving" =>
    /\ redis' = redis /\ isCacheEnabled' = isCacheEnabled /\ s3Client' = s3Client
    /\ \A r, q \in Req : (r /= q /\ pc'[r] /= pc[r]) => Locals(q)' = Locals(q)

\* every answer request (s, w, q) can get, given the backends: a function of
\* the request's own source, width and quality
Answers(s, w, q) ==
  IF s = <<>> THEN {JsonResponse(400, <<"Source image is required">>)}
  ELSE Uncached(s, w, q)
       \cup (IF Stored(s).ok /\ ~SharpRejects(Stored(s).body)
               THEN {ImageResponse(Transform(Stored(s).body, w, q), "HIT"),
                     MissResponse(Stored(s).body, Transform(Stored(s).body, w, q))}
               ELSE {})
       \cup (IF Stored(s).ok /\ SharpRejects(Stored(s).body)
               THEN {ErrorResponse(SharpError)} ELSE {})

\* the answer of a request whose redis calls did not fail is one of the
\* answers of its own source, width and quality
C18_OwnAnswer ==
  \A r \in Req :
    (Answered(r) /\ ~fault[r]) => resp[r] \in Answers(src[r], width[r], quality[r])

\* C18: handling requests assigns no process-wide variable, a step of one
\* request touches no local of another, and a response is determined by the
\* request's own source, width and quality, the backends and the cache
C18_RequestsShareOnlyTheCache == []C18_OwnAnswer /\ [][C18_Frame]_vars

\* two overlapping requests for different images were both answered 200
C18_Witness ==
  \E a, b \in Req :
    /\ b = a + 1 /\ ~afterPrev[b] /\ src[a] /= src[b]
    /\ Answered(a) /\ Answered(b)
    /\ resp[a].status = 200 /\ resp[b].status = 200
    /\ resp[a].body /= resp[b].body

(* ---------------------------------------------------------------------- *)
(* C19                                                                     *)
(* ---------------------------------------------------------------------- *)

\* C19: after a connect that was rejected or lost the race with the timer,
\* redis is null and isCacheEnabled false in every later state, also once the
\* abandoned client has connected, startup is not run again, and requests make
\* no redis call and are answered by fetch and transform
C19_FailedStartupDisablesCacheForGood ==
  connection \in {"failed", "late"} =>
    /\ phase /= "initializeCache"
    /\ redis = NoClient /\ ~isCacheEnabled
    /\ \A r \in Req :
         (Answered(r) /\ src[r] /= <<>>) =>
           /\ \A i \in 1..Len(log[r]) : log[r][i] \notin CacheCalls
           /\ FetchThenTransform(r)
           /\ resp[r] \in Uncached(src[r], width[r], quality[r])

\* the abandoned client has connected, and a request was served without cache
C19_Witness ==
  /\ connection = "late" /\ redis = NoClient /\ ~isCacheEnabled
  /\ \E r \in Req :
       /\ Answered(r) /\ resp[r].status = 200 /\ resp[r].xcache = "MISS"
       /\ log[r] = <<"fetch", "sharp">>

(* ---------------------------------------------------------------------- *)
(* C20                                                                     *)
(* ---------------------------------------------------------------------- *)

\* the source text starts with http:// or https://
RemoteURL(s) == Len(s) > 0 /\ (s[1] = "http://" \/ s[1] = "https://")

RemoteCalls == {"fetch"}
BucketCalls == {"get original", "s3", "set original"}

\* request r has left getImageBuffer, with bytes or with its error
LeftGetImageBuffer(r) ==
  \/ pc[r] \in {"processImage", "cacheImage"}
  \/ Answered(r) /\ resp[r].xcache /= "HIT" /\ src[r] /= <<>>
       /\ ~(fault[r] /\ LastCall(r) = "get img")

\* C20: a source is fetched with an HTTP GET exactly when it starts with
\* http:// or https://, and from the bucket with its original-bytes cache
\* otherwise; no request uses both, none changes backend after a failure, and
\* no original-bytes key is read or written for a URL
C20_OneBackendPerSource ==
  /\ \A r \in Req :
       /\ IF RemoteURL(src[r])
            THEN \A op \in BucketCalls : ~Made(r, op)
            ELSE \A op \in RemoteCalls : ~Made(r, op)
       /\ \A op \in {"fetch", "s3"} : Made(r, op) => Once(r, op)
       /\ LeftGetImageBuffer(r) =>
            /\ RemoteURL(src[r]) => Made(r, "fetch")
            /\ (~RemoteURL(src[r]) /\ CacheAvailable) => Made(r, "get original")
            /\ (~RemoteURL(src[r]) /\ ~CacheAvailable /\ s3Client /= NoClient) =>
                 Made(r, "s3")
  /\ \A e \in cache :
       e.key[1] = "original:" => ~RemoteURL(Tail(e.key))

\* a URL that failed was answered after its one GET, and a bucket key was
\* served through the bucket and its original-bytes entry
C20_Witness ==
  \E a, b \in Req :
    /\ src[a] = SrcGone /\ Answered(a) /\ log[a] = <<"get img", "fetch">>
    /\ ~RemoteURL(src[b]) /\ Answered(b) /\ resp[b].status = 200
    /\ log[b] = <<"get img", "get original", "s3", "set original", "sharp", "set img">>

(* ---------------------------------------------------------------------- *)
(* C21                                                                     *)
(* ---------------------------------------------------------------------- *)

\* C21: nothing is retried. In one request every collaborator call (the
\* derivative get, the HTTP GET, the bucket read, the original-bytes get, the
\* transform, the write to each cache namespace) is made at most once, and
\* the request reads its bytes with an HTTP GET or from the bucket, never
\* both, whatever failed
C21_NothingIsRetried ==
  \A r \in Req :
    /\ \A i \in 1..Len(log[r]) : \A j \in (i + 1)..Len(log[r]) : log[r][i] /= log[r][j]
    /\ ~(Made(r, "fetch") /\ Made(r, "s3"))

\* a request whose original-bytes write failed was answered after one attempt
\* of each call, and another whose HTTP GET failed after its one GET
C21_Witness ==
  \E a, b \in Req :
    /\ Answered(a) /\ fault[a]
    /\ log[a] = <<"get img", "get original", "s3", "set original">>
    /\ Answered(b) /\ ~RemoteResponse(src[b]).ok
    /\ log[b] = <<"get img", "fetch">>

(* ---------------------------------------------------------------------- *)
(* C22                                                                     *)
(* ---------------------------------------------------------------------- *)

\* C22: every response to an image request, the 400, 404 and 500 error
\* responses included, carries the X-Cache header with value HIT or MISS
C22_EveryResponseCarriesXCache ==
  \A r \in Req : Answered(r) => resp[r].xcache \in {"HIT", "MISS"}

(* ---------------------------------------------------------------------- *)
(* C23                                                                     *)
(* ---------------------------------------------------------------------- *)

\* C23: a response has a binary image body with Content-Type image/webp
\* exactly when its status is 200; every other response has Content-Type
\* application/json and a JSON body with an error message, and no image
C23_ImageBodyIffOk ==
  \A r \in Req :
    Answered(r) =>
      /\ resp[r].status = 200 <=> resp[r].contentType = "image/webp"
      /\ resp[r].status = 200 => resp[r].body /= NoBuf /\ resp[r].error = <<>>
      /\ resp[r].status /= 200 =>
           /\ resp[r].contentType = "application/json"
           /\ resp[r].body = NoBuf
           /\ resp[r].error /= <<>>

\* one request was answered with an image and another with a JSON error
C23_Witness ==
  \E a, b \in Req :
    /\ Answered(a) /\ resp[a].status = 200 /\ resp[a].body.len > 0
    /\ Answered(b) /\ resp[b].status \in {404, 500}
    /\ resp[b].contentType = "application/json"

(* ---------------------------------------------------------------------- *)
(* C24                                                                     *)
(* ---------------------------------------------------------------------- *)

\* quality texts that are no number in [0,100], and width texts that are absent
\* or no number
InvalidQualities == {<<"150">>, <<"-5">>, <<"abc">>}
NoWidths == {Null, <<>>, <<"abc">>}

\* processImage on every pairing of those texts with valid ones: the invalid
\* parameter's step is left out and the other step is applied (no state enters
\* it, so it is looked at once, at startup)
C24_Parameters ==
  \A b \in {BucketObject(SrcPhoto).body, RemoteResponse(SrcBig).body} :
    /\ \A q \in InvalidQualities :
         /\ Transform(b, <<"50">>, q) = Sharp(b, 50, NoOp)
         /\ \A w \in NoWidths : Transform(b, w, q) = Sharp(b, NoOp, NoOp)
    /\ \A w \in NoWidths :
         /\ Transform(b, w, <<"100">>) = Sharp(b, NoOp, 100)
         /\ Transform(b, w, DefaultQuality) = Sharp(b, NoOp, 75)
    /\ Transform(b, <<"50">>, DefaultQuality) = Sharp(b, 50, 75)

\* request r asked for width 50 and quality 150, and its source was read and
\* decoded
ResizeOnly(r) ==
  /\ width[r] = <<"50">> /\ quality[r] = <<"150">>
  /\ Made(r, "sharp") /\ ~SharpRejects(originalBuffer[r])

\* C24: a quality outside [0,100] or not a number is no error: processImage
\* leaves out the webp step only and still resizes to a numeric width, and an
\* absent or non-numeric width leaves out the resize only. The request goes
\* on to the cache write and is answered 200 as with valid parameters
C24_InvalidParameterSkipsItsStepOnly ==
  /\ phase = "initializeCache" => C24_Parameters
  /\ \A r \in Req :
       ResizeOnly(r) =>
         /\ pc[r] \in {"cacheImage", "done"}
         /\ processedImage[r] = Sharp(originalBuffer[r], 50, NoOp)
         /\ (Answered(r) /\ CacheAvailable) => Made(r, "set img")
         /\ (Answered(r) /\ ~fault[r]) =>
              /\ resp[r].status = 200 /\ resp[r].xcache = "MISS"
              /\ resp[r].body = processedImage[r]

\* a request with quality 150 and width 50 was resized, cached and answered
C24_Witness ==
  \E r \in Req :
    /\ ResizeOnly(r) /\ Answered(r) /\ ~fault[r]
    /\ LastCall(r) = "set img"
    /\ \E e \in cache : e.key = KeyOf(r) /\ e.val = ToBase64(processedImage[r])

(* ---------------------------------------------------------------------- *)
(* C25                                                                     *)
(* ---------------------------------------------------------------------- *)

\* source, width and quality texts, among them texts made of the very pieces
\* the keys are made of. The pieces are such that no text can be cut into
\* them in two ways, so two sequences of pieces are equal exactly when the
\* strings they spell are
KeySources ==
  {SrcPhoto, SrcBig, <<"a">>, <<"a", ":w=", "1">>, <<"img:", "a">>, <<"original:", "a">>,
   <<"img:", "a", ":w=", "null", ":q=", "75">>}
KeyWidths == {Null, <<"50">>, <<"1", ":w=", "null">>}
KeyQualities == {<<"75">>, <<"100">>, <<"150">>, <<"75", ":q=", "75">>}

\* no original-bytes key is a derivative key (no state enters it, so it is
\* looked at once, at startup)
C25_Keys ==
  \A s, t \in KeySources, w \in KeyWidths, q \in KeyQualities :
    OriginalCacheKey(s) /= ImageCacheKey(t, w, q)

\* the entry holds sharp's output
HoldsDerivative(e) == e.val.id[1] = "sharp"

\* C25: the two cache namespaces are disjoint. No original-bytes key
\* original:<s> equals a derivative key img:<s'>:w=<width>:q=<quality>, so an
\* entry of one namespace is never returned by a lookup in the other: what a
\* request reads as original bytes is no derivative, and what it serves as a
\* hit is one
C25_NamespacesAreDisjoint ==
  /\ phase = "initializeCache" => C25_Keys
  /\ \A e \in cache :
       /\ e.key[1] \in {"original:", "img:"}
       /\ e.own => (HoldsDerivative(e) <=> e.key[1] = "img:")
  /\ \A r \in Req :
       /\ (Answered(r) /\ resp[r].xcache = "HIT") => resp[r].body.id[1] = "sharp"
       /\ Made(r, "sharp") => originalBuffer[r].id[1] /= "sharp"

\* the store holds the original bytes of a source and a derivative of it, each
\* under its key, and a later request was served the derivative as a hit
C25_Witness ==
  /\ \E e, d \in cache :
       /\ e.own /\ e.key = OriginalCacheKey(SrcPhoto) /\ ~HoldsDerivative(e)
       /\ d.own /\ d.key[1] = "img:" /\ HoldsDerivative(d)
  /\ \E r \in Req : Answered(r) /\ src[r] = SrcPhoto /\ resp[r].xcache = "HIT"

(* ---------------------------------------------------------------------- *)
(* C27                                                                     *)
(* ---------------------------------------------------------------------- *)

\* in this step request r made the call op
Calling(r, op) == log'[r] = Append(log[r], op)

\* the entry d is there after the step with more time to live than its key had
\* before it: it is new, or it was written anew
Fresh(d) == \A e \in cache : e.key = d.key => e.ttl < d.ttl

\* a cache read leaves the store as it is, and an entry of this process that
\* is fresh after a step has 604800 seconds to live and was written in that
\* step by cacheImage or cacheOriginalImage under its key
C27_TtlStep ==
  /\ \A r \in Req :
       (Calling(r, "get img") \/ Calling(r, "get original")) => cache' = cache
  /\ \A d \in cache' :
       (d.own /\ Fresh(d)) =>
         /\ d.ttl = 604800
         /\ \E r \in Req :
              \/ Calling(r, "set img") /\ d.key = KeyOf(r)
              \/ Calling(r, "set original") /\ d.key = OriginalCacheKey(src[r])

\* no entry has more than 7 days to live
C27_TtlBound == \A e \in cache : e.ttl <= 604800

\* C27: every cache write, in the original as in the derivative namespace,
\* sets a time to live of exactly 7 days (604800 seconds), and no operation
\* of the pipeline extends or refreshes the time to live of an entry on a read
C27_TtlIsSevenDaysNeverRefreshed == []C27_TtlBound /\ [][C27_TtlStep]_vars

\* days after they were written the original bytes of a source were read from
\* the cache and have the last of their time to live still, next to the
\* derivative the reading request wrote just now
C27_Witness ==
  \E r \in Req :
    /\ Answered(r) /\ log[r] = <<"get img", "get original", "sharp", "set img">>
    /\ \E e, d \in cache :
         /\ e.own /\ e.key = OriginalCacheKey(src[r]) /\ e.ttl = 1
         /\ d.own /\ d.key = KeyOf(r) /\ d.ttl = 604800

(* ---------------------------------------------------------------------- *)
(* C26                                                                     *)
(* ---------------------------------------------------------------------- *)

\* request a wrote with the call op, the write went through, and b, which
\* arrived after a was answered, made the lookup get without a failing call
WroteThenRead(a, b, op, get) ==
  /\ Later(a, b) /\ ~fault[a] /\ ~fault[b]
  /\ Made(a, op) /\ Made(b, get)

\* C26: cache values round-trip as opaque bytes. Whatever payload (the empty
\* one included) cacheImage or cacheOriginalImage wrote under a key, a later
\* lookup of the key before expiry is a hit and returns a buffer equal to it
C26_ValuesRoundTrip ==
  \A a, b \in Req :
    /\ (WroteThenRead(a, b, "set original", "get original") /\ src[a] = src[b]) =>
         /\ ~Made(b, "s3")
         /\ originalBuffer[b] = originalBuffer[a]
    /\ (WroteThenRead(a, b, "set img", "get img") /\ SameRequest(a, b)) =>
         /\ ~Made(b, "sharp")
         /\ pc[b] /= "getImageBuffer"
         /\ resp[b].xcache = "HIT" /\ resp[b].body = processedImage[a]

(* ---------------------------------------------------------------------- *)
(* C28                                                                     *)
(* ---------------------------------------------------------------------- *)

\* C28: a request whose path is a storage key of several segments, such as
\* /images/photo.jpg, is handled as an image request whose source is the path
\* without its leading slash; the server's routing does not answer it 404
\* before handleImageRequest
C28_MultiSegmentKeyReachesHandler ==
  \A r \in Req :
    (pc[r] /= "idle" /\ url[r].segments > 1 /\ url[r].wellFormed) =>
      /\ src[r] = url[r].text
      /\ resp[r] /= RouteResponse("fetch")

(* ---------------------------------------------------------------------- *)
(* C29                                                                     *)
(* ---------------------------------------------------------------------- *)

\* the handler of request r got past its validation
Parsed(r) == pc[r] /= "idle" /\ src[r] /= <<>>

\* C29: the derivative key is injective. Two requests with different (source,
\* width, quality) never have the same key img:<source>:w=<width>:q=<quality>,
\* source and width being any texts, so a request is never answered with a
\* derivative cached for another source or other parameters
C29_DerivativeKeyIsInjective ==
  /\ \A a, b \in Req :
       (Parsed(a) /\ Parsed(b) /\ KeyOf(a) = KeyOf(b)) => SameRequest(a, b)
  /\ \A r \in Req :
       (Over(r) /\ resp[r].xcache = "HIT") =>
         resp[r].body = Transform(Stored(src[r]).body, width[r], quality[r])

(* ---------------------------------------------------------------------- *)
(* C30                                                                     *)
(* ---------------------------------------------------------------------- *)

\* the promise of request r resolved to a response of the handler or the server
Resolved(r) == pc[r] = "done" /\ resp[r].status \in {200, 400, 404, 500}

\* C30: every awaited call returning or failing, every invocation of
\* handleImageRequest ends by resolving to one response with status 200, 400,
\* 404 or 500; it never rejects, malformed percent-encoding in the path and
\* active analytics included
C30_EveryRequestResolves ==
  /\ [](\A r \in Req : pc[r] /= "rejected")
  /\ \A r \in Req : (pc[r] /= "idle") ~> Resolved(r)

(* ---------------------------------------------------------------------- *)
(* C31                                                                     *)
(* ---------------------------------------------------------------------- *)

\* the order of the module's top level: each step of it moves one place on
PhaseOrder == <<"initializeCache", "connect", "initializeS3Client", "serving">>

PhaseIndex(p) == CHOOSE i \in 1..Len(PhaseOrder) : PhaseOrder[i] = p

\* startup moves forward one place at a time and never back, redis and
\* isCacheEnabled are assigned by initializeCache alone and s3Client by
\* initializeS3Client alone, and from the first request on none of the three
\* is assigned
C31_StartupStep ==
  /\ phase' /= phase => PhaseIndex(phase') = PhaseIndex(phase) + 1
  /\ redis' /= redis => phase \in {"initializeCache", "connect"}
  /\ isCacheEnabled' /= isCacheEnabled => phase = "connect"
  /\ s3Client' /= s3Client => phase = "initializeS3Client"
  /\ (\E r \in Req : pc'[r] /= "idle") =>
       /\ phase' = "serving"
       /\ redis' = redis /\ isCacheEnabled' = isCacheEnabled /\ s3Client' = s3Client

\* a request is handled only when both initializations are over
C31_LoadedFirst == \A r \in Req : pc[r] /= "idle" => phase = "serving"

\* C31: no image request is handled before initializeCache and
\* initializeS3Client have both finished. The module awaits them at its top
\* level, in that order and once each, before the server that imports it
\* registers its routes, so every request sees the final values of redis,
\* isCacheEnabled and s3Client
C31_RequestsAfterStartup == []C31_LoadedFirst /\ [][C31_StartupStep]_vars

\* a request was answered through the cache and the bucket client that
\* startup had left
C31_Witness ==
  /\ phase = "serving" /\ isCacheEnabled /\ s3Client /= NoClient
  /\ \E r \in Req : Answered(r) /\ Made(r, "get img") /\ Made(r, "s3")

(* ---------------------------------------------------------------------- *)
(* C32                                                                     *)
(* ---------------------------------------------------------------------- *)

\* request r, for a bucket key, is over, no redis call of it failed, and
\* neither the derivative nor the original bytes came from the cache
MissedBothCaches(r) ==
  /\ Over(r) /\ Parsed(r) /\ ~RemoteURL(src[r]) /\ ~fault[r]
  /\ resp[r].xcache /= "HIT" /\ ~OriginalHit(r)

\* C32: without a bucket client (settings missing or the startup probe
\* failed) every request for a bucket key that misses the caches is answered
\* 500, reads no object, transforms nothing and writes no cache entry;
\* requests for a URL are answered as with a client
C32_NoBucketClientIs500 ==
  s3Client = NoClient =>
    \A r \in Req :
      /\ MissedBothCaches(r) =>
           /\ resp[r].status = 500
           /\ ~Made(r, "s3") /\ ~Made(r, "sharp")
           /\ ~Made(r, "set img") /\ ~Made(r, "set original")
      /\ (Over(r) /\ Parsed(r) /\ RemoteURL(src[r]) /\ ~fault[r]) =>
           resp[r] \in Uncached(src[r], width[r], quality[r])

(* ---------------------------------------------------------------------- *)
(* C33                                                                     *)
(* ---------------------------------------------------------------------- *)

\* in this step the server answered request r on its /health route
HealthAnswered(r) ==
  pc[r] = "idle" /\ pc'[r] = "done" /\ url'[r].text = <<"health">>

\* the status after initializeCache is connected exactly when the connect won
\* the race, the status after initializeS3Client is connected exactly when
\* the settings were there and the probe succeeded, no later step changes
\* either, and a step that answers /health reports the status and assigns
\* nothing of the process
C33_StatusStep ==
  /\ \A outcome \in RaceOutcomes :
       RaceSettles(outcome) =>
         (GetServiceStatus'.redis = "connected" <=> outcome = "connected")
  /\ \A settings \in BOOLEAN, probe \in BOOLEAN :
       ProbeSettles(settings, probe) =>
         (GetServiceStatus'.s3 = "connected" <=> (settings /\ probe))
  /\ phase = "serving" => GetServiceStatus' = GetServiceStatus
  /\ \A r \in Req :
       HealthAnswered(r) =>
         /\ resp'[r].status = 200
         /\ resp'[r].body.id = <<"healthy", GetServiceStatus.redis, GetServiceStatus.s3>>
         /\ UNCHANGED <<phase, connection, redis, isCacheEnabled, s3Client, cache,
                        umamiService, token, isAuthenticated>>

\* before initializeCache has settled the status is disabled for both
C33_Startup ==
  phase \in {"initializeCache", "connect"} =>
    GetServiceStatus.redis = "disabled" /\ GetServiceStatus.s3 = "disabled"

\* C33: getServiceStatus reflects how startup ended. It reports redis
\* connected exactly when the cache connect succeeded within the timeout and
\* disabled otherwise, s3 connected exactly when all R2 settings were present
\* and the startup list probe succeeded and disabled otherwise, and calling
\* it changes no state
C33_StatusReflectsStartup == []C33_Startup /\ [][C33_StatusStep]_vars

\* the server answered /health with redis connected and s3 disabled
C33_Witness ==
  \E r \in Req :
    /\ pc[r] = "done" /\ url[r].text = <<"health">>
    /\ resp[r].body.id = <<"healthy", "connected", "disabled">>
    /\ connection = "connected" /\ s3Client = NoClient

(* ---------------------------------------------------------------------- *)
(* C34                                                                     *)
(* ---------------------------------------------------------------------- *)

\* a config with a token and without username and password
TokenOnly == [credentials |-> FALSE, token |-> TRUE]

\* creating the service from a token-only config whose token the verify
\* endpoint accepts leaves it authenticated and holding a token, and the
\* finally block of a request served by an authenticated service posts its
\* event
C34_TokenStep ==
  /\ CreateUmamiService(TokenOnly, TRUE) =>
       GetAuthStatus' = [isAuthenticated |-> TRUE, hasToken |-> TRUE]
  /\ \A r \in Req :
       (Finally(r) /\ url[r].wellFormed /\ GetAuthStatus.isAuthenticated) =>
         log'[r] = log[r] \o <<"track", "send">>

\* C34: a UmamiService created by createUmamiService from a config that has
\* a token but no username/password, when the verify endpoint accepts that
\* token, ends up authenticated (getAuthStatus reports isAuthenticated true
\* and hasToken true), so that trackEvent sends events instead of skipping
\* them
C34_TokenOnlyConfigAuthenticates == [][C34_TokenStep]_vars

(* ---------------------------------------------------------------------- *)
(* C35                                                                     *)
(* ---------------------------------------------------------------------- *)

\* C35: in every reachable state of the process, isCacheEnabled = true
\* implies redis is non-null: initializeCache sets isCacheEnabled only after
\* a successful connect on the client it stored, and resets both together on
\* failure or timeout
C35_EnabledImpliesClient ==
  /\ isCacheEnabled => redis /= NoClient
  /\ connection = "none" => ~isCacheEnabled
  /\ connection \in {"failed", "late"} => redis = NoClient /\ ~isCacheEnabled

\* the connect succeeded and a request read the cache through the client
C35_Witness ==
  /\ isCacheEnabled /\ redis /= NoClient /\ connection = "connected"
  /\ \E r \in Req : Made(r, "get img") /\ pc[r] = "done"

====
